---- MODULE Spec2Model ----
(***************************************************************************)
(* CEventSafe (src/EventTemplate.h:163-263): the mutex-protected event hub *)
(* with RAII Subscription handles.  Threads call subscribe and trigger,    *)
(* move and destroy handles, also reentrantly from inside a callback that  *)
(* trigger is running.  A listener is identified by the id of its entry.   *)
(*                                                                         *)
(* CTimedEvent (src/CTimedEvent.h:19-76): the dispatcher with immediate    *)
(* and delayed callbacks, modelled by the Timed actions and TimedSpec.     *)
(***************************************************************************)
EXTENDS Integers, Sequences, FiniteSets, TLC

\* ---------------------------------------------------------------- bounds
\* total number of calls (subscribe, trigger, handle move, handle destroy)
MaxCalls == 5
\* call-stack depth of one thread: trigger -> callback -> reentrant call
MaxDepth == 2
\* number of subscriptions made with an empty std::function
MaxNull == 1

Threads == {"t1", "t2"}
NoThread == "none"

\* `id_ = -1`: the id of a handle that owns nothing
Sentinel == -1

Ids == 0 .. (MaxCalls - 1)

\* a std::function given to subscribe: one that holds a target, or an empty one
Callbacks == {"fn", "null"}

VARIABLES
    callbacks,      \* callbacks_: sequence of entries [id, active]
    needsCleanup,   \* needsCleanup_
    nextId,         \* nextId_
    mutex,          \* mutex_: the thread that holds it, or NoThread
    owner,          \* the application still holds its shared_ptr to the hub
    hubAlive,       \* the hub object has not been destroyed
    handles,        \* every Subscription object ever constructed
    stack,          \* per thread: its call stack of frames
    calls,          \* number of calls made so far
    unsubCalls,     \* history: number of unsubscribe(id) calls, per id
    dropped,        \* history: ids whose owning handle's destructor completed
    entryCallback,  \* CallbackEntry::callback of the entry with each id
    assigned,       \* history: the ids subscribe has assigned, in order
    thrown,         \* history: a callback has thrown out of a trigger call
    immCallbacks,   \* CTimedEvent::immediate_callbacks_
    delCallbacks,   \* CTimedEvent::delayed_callbacks_: [func, delay_ms]
    tmutex,         \* CTimedEvent::mutex_: the thread that holds it
    tstack,         \* per thread: its call stack inside CTimedEvent
    units,          \* the detached threads launch_delayed has started
    trigArgs,       \* history: the argument of each CTimedEvent::trigger call
    tcalls,         \* number of CTimedEvent calls made so far
    relock          \* what mutex_.lock() does in a thread that owns mutex_

hubVars == <<callbacks, needsCleanup, nextId, mutex>>
\* the state of CEventSafe and of its handles and callers
safeVars == <<callbacks, needsCleanup, nextId, mutex, owner, hubAlive, handles,
              stack, calls, unsubCalls, dropped, entryCallback, assigned, thrown>>
\* the state of CTimedEvent and of its callers and units
timedVars == <<immCallbacks, delCallbacks, tmutex, tstack, units, trigArgs,
               tcalls, relock>>
vars == <<callbacks, needsCleanup, nextId, mutex, owner, hubAlive, handles,
          stack, calls, unsubCalls, dropped, entryCallback, assigned, thrown,
          immCallbacks, delCallbacks, tmutex, tstack, units, trigArgs,
          tcalls, relock>>

\* ------------------------------------------------------- pure operations

Min(a, b) == IF a < b THEN a ELSE b

\* CallbackEntry(id, callback, active = true)
CallbackEntry(id) == [id |-> id, active |-> TRUE]

\* callbacks_.push_back(entry)
PushBack(cbs, e) == Append(cbs, e)

\* std::find_if(..., entry->id == id): index of the first match, 0 for end()
RECURSIVE FindFrom(_, _, _)
FindFrom(cbs, id, k) ==
    IF k > Len(cbs) THEN 0
    ELSE IF cbs[k].id = id THEN k
    ELSE FindFrom(cbs, id, k + 1)

\* a mutant of FindId: the predicate is negated (entry->id != id)
RECURSIVE FindOtherFrom(_, _, _)
FindOtherFrom(cbs, id, k) ==
    IF k > Len(cbs) THEN 0
    ELSE IF cbs[k].id # id THEN k
    ELSE FindOtherFrom(cbs, id, k + 1)

FindIdOther(cbs, id) == FindOtherFrom(cbs, id, 1)

FindId(cbs, id) == FindFrom(cbs, id, 1)

\* a mutant of UnsubscribeOp: the flag is toggled instead of cleared
UnsubscribeToggle(cbs, nc, id) ==
    LET k == FindId(cbs, id) IN
    IF k # 0
    THEN [callbacks |-> [cbs EXCEPT ![k].active = ~cbs[k].active],
          needsCleanup |-> TRUE]
    ELSE [callbacks |-> cbs, needsCleanup |-> nc]

\* a mutant of UnsubscribeOp: the entry is never marked
UnsubscribeNoMark(cbs, nc, id) == [callbacks |-> cbs, needsCleanup |-> nc]

\* unsubscribe(id), the part under the lock
UnsubscribeOp(cbs, nc, id) ==
    LET k == FindId(cbs, id) IN
    IF k # 0
    THEN [callbacks |-> [cbs EXCEPT ![k].active = FALSE],
          needsCleanup |-> TRUE]
    ELSE [callbacks |-> cbs, needsCleanup |-> nc]

\* a mutant of RemoveInactive: an inactive entry is overwritten by the last
\* entry and the vector shortened ("swap and pop"), which reorders survivors
RECURSIVE SwapPop(_, _)
SwapPop(cbs, k) ==
    IF k > Len(cbs) THEN cbs
    ELSE IF cbs[k].active THEN SwapPop(cbs, k + 1)
    ELSE IF k = Len(cbs) THEN SubSeq(cbs, 1, k - 1)
    ELSE SwapPop([SubSeq(cbs, 1, Len(cbs) - 1) EXCEPT ![k] = cbs[Len(cbs)]], k)

RemoveInactiveSwapPop(cbs) == SwapPop(cbs, 1)

\* a mutant of RemoveInactive: remove_if without the erase keeps everything
RemoveInactiveNothing(cbs) == cbs

\* callbacks_.erase(std::remove_if(..., !entry->active), end()): stable
RemoveInactive(cbs) == SelectSeq(cbs, LAMBDA e : e.active)

\* a mutant of CleanupOp: the flag is not reset after the pass
CleanupKeepFlag(cbs, nc) ==
    IF nc THEN [callbacks |-> RemoveInactive(cbs), needsCleanup |-> nc]
    ELSE [callbacks |-> cbs, needsCleanup |-> nc]

\* the lazy cleanup pass of trigger
CleanupOp(cbs, nc) ==
    IF nc THEN [callbacks |-> RemoveInactive(cbs), needsCleanup |-> FALSE]
    ELSE [callbacks |-> cbs, needsCleanup |-> nc]

\* the ids of a sequence of entries, in order
RECURSIVE IdsOf(_)
IdsOf(cbs) == IF cbs = <<>> THEN <<>> ELSE <<Head(cbs).id>> \o IdsOf(Tail(cbs))

\* activeEntries: the entries with entry->active, in list order
ActiveEntries(cbs) == IdsOf(SelectSeq(cbs, LAMBDA e : e.active))

\* ------------------------------------------------------------- handles

\* Subscription(std::weak_ptr<CEventSafe> event, int id)
NewSubscription(id) == [st |-> "live", ref |-> TRUE, id |-> id]

\* a mutant of MovedFrom: the source keeps its reference and id (a copy)
MovedFromCopy(h) == h

\* the source of a move: event_ moved out (empty), id_ = -1
MovedFrom(h) == [h EXCEPT !.ref = FALSE, !.id = Sentinel]

\* the target of a move: takes the source's event_ and id_
MovedTo(src) == [st |-> "live", ref |-> src.ref, id |-> src.id]

\* a mutant of WeakLock: a raw pointer, tested for non-null only
WeakLockRaw(h) == h.ref

\* event_.lock(): succeeds iff the weak_ptr is non-empty and the hub lives
WeakLock(h) == h.ref /\ hubAlive

\* --------------------------------------------------------------- frames

Frame(op, pc, h) ==
    [op |-> op, pc |-> pc, h |-> h, snap |-> <<>>, idx |-> 0, cur |-> Sentinel,
     snapNext |-> 0, startDropped |-> {}, afterDrop |-> FALSE, cb |-> "fn",
     afterThrow |-> FALSE]

Top(t) == stack[t][Len(stack[t])]
Busy(t) == stack[t] # <<>>
SetTop(t, f) == [stack EXCEPT ![t] = [stack[t] EXCEPT ![Len(stack[t])] = f]]
Push(t, f) == [stack EXCEPT ![t] = Append(stack[t], f)]
Pop(t) == [stack EXCEPT ![t] = SubSeq(stack[t], 1, Len(stack[t]) - 1)]

FramesOf(t) == {stack[t][i] : i \in 1 .. Len(stack[t])}
AllFrames == UNION {FramesOf(t) : t \in Threads}

\* threads holding the temporary shared_ptr of ~Subscription (line 172)
TempHolders == {t \in Threads : \E f \in FramesOf(t) :
                    f.op = "dtor" /\ f.pc \in {"lock", "crit"}}

HandleSet == 1 .. Len(handles)
\* every Subscription object constructed so far has been destroyed
AllHandlesDead == handles # <<>> /\ \A h \in HandleSet : handles[h].st = "dead"

\* a thread can make a call from application code or from inside a callback
CanCall(t) ==
    /\ calls < MaxCalls
    /\ IF Busy(t)
       THEN /\ Len(stack[t]) < MaxDepth
            /\ Top(t).op = "trigger"
            /\ Top(t).pc = "incb"
       ELSE TRUE

\* ------------------------------------------------------------------ Init

SafeInit ==
    /\ callbacks = <<>>
    /\ needsCleanup = FALSE
    /\ nextId = 0
    /\ mutex = NoThread
    /\ owner = TRUE
    /\ hubAlive = TRUE
    /\ handles = <<>>
    /\ stack = [t \in Threads |-> <<>>]
    /\ calls = 0
    /\ unsubCalls = [i \in (Ids \cup {Sentinel}) |-> 0]
    /\ dropped = {}
    /\ entryCallback = [i \in Ids |-> "none"]
    /\ assigned = <<>>
    /\ thrown = FALSE

\* CTimedEvent after construction: empty lists, mutex free, nothing running
TimedStart ==
    /\ immCallbacks = <<>>
    /\ delCallbacks = <<>>
    /\ tmutex = NoThread
    /\ tstack = [t \in Threads |-> <<>>]
    /\ units = <<>>
    /\ trigArgs = <<>>
    /\ tcalls = 0

\* what lock() does when the calling thread owns the std::mutex is
\* undefined: it never returns, or it throws std::system_error
RelockOutcomes == {"block", "throw"}

Init == SafeInit /\ TimedStart /\ relock = "block"

TimedInit == SafeInit /\ TimedStart /\ relock \in RelockOutcomes

\* ---------------------------------------------------------------- calls

\* the subscriptions made so far with an empty std::function
NullEntries == {i \in Ids : entryCallback[i] = "null"}
NullPending == {t \in Threads : \E f \in FramesOf(t) :
                    f.op = "subscribe" /\ f.cb = "null"}

\* a thread calls hub->subscribe(callback)
CallSubscribe(t, cb) ==
    /\ CanCall(t)
    /\ owner
    /\ cb = "null" => Cardinality(NullEntries) + Cardinality(NullPending) < MaxNull
    /\ stack' = Push(t, [Frame("subscribe", "lock", 0) EXCEPT
                            !.cb = cb,
                            !.startDropped = dropped,
                            !.afterDrop = AllHandlesDead])
    /\ calls' = calls + 1
    /\ UNCHANGED <<hubVars, owner, hubAlive, handles, unsubCalls, dropped>>
    /\ UNCHANGED <<entryCallback, assigned, thrown>>
    /\ UNCHANGED timedVars

\* a thread calls hub->trigger(args...)
CallTrigger(t) ==
    /\ CanCall(t)
    /\ owner
    /\ stack' = Push(t, [Frame("trigger", "lock", 0) EXCEPT
                            !.startDropped = dropped,
                            !.afterDrop = AllHandlesDead,
                            !.afterThrow = thrown])
    /\ calls' = calls + 1
    /\ UNCHANGED <<hubVars, owner, hubAlive, handles, unsubCalls, dropped>>
    /\ UNCHANGED <<entryCallback, assigned, thrown>>
    /\ UNCHANGED timedVars

\* a thread destroys handle h: ~Subscription() begins
CallDestroy(t, h) ==
    /\ CanCall(t)
    /\ handles[h].st = "live"
    /\ handles' = [handles EXCEPT ![h].st = "dying"]
    /\ stack' = Push(t, Frame("dtor", "wlock", h))
    /\ calls' = calls + 1
    /\ UNCHANGED <<hubVars, owner, hubAlive, unsubCalls, dropped>>
    /\ UNCHANGED <<entryCallback, assigned, thrown>>
    /\ UNCHANGED timedVars

\* Subscription(Subscription&& other): a new handle made from handle src
MoveConstruct(t, src) ==
    /\ CanCall(t)
    /\ handles[src].st = "live"
    /\ handles' = Append([handles EXCEPT ![src] = MovedFrom(handles[src])],
                         MovedTo(handles[src]))
    /\ calls' = calls + 1
    /\ UNCHANGED <<hubVars, owner, hubAlive, stack, unsubCalls, dropped>>
    /\ UNCHANGED <<entryCallback, assigned, thrown>>
    /\ UNCHANGED timedVars

\* operator=(Subscription&& other): handle dst takes over handle src
MoveAssign(t, dst, src) ==
    /\ CanCall(t)
    /\ handles[dst].st = "live"
    /\ handles[src].st = "live"
    /\ handles' = IF dst # src
                  THEN [handles EXCEPT ![dst] = MovedTo(handles[src]),
                                       ![src] = MovedFrom(handles[src])]
                  ELSE handles
    /\ calls' = calls + 1
    /\ UNCHANGED <<hubVars, owner, hubAlive, stack, unsubCalls, dropped>>
    /\ UNCHANGED <<entryCallback, assigned, thrown>>
    /\ UNCHANGED timedVars

\* the application drops its shared_ptr to the hub; no thread is inside
\* subscribe or trigger.  The hub dies unless a destructor holds a reference.
ReleaseOwner ==
    /\ owner
    /\ \A f \in AllFrames : f.op = "dtor"
    /\ owner' = FALSE
    /\ hubAlive' = (TempHolders # {})
    /\ UNCHANGED <<hubVars, handles, stack, calls, unsubCalls, dropped>>
    /\ UNCHANGED <<entryCallback, assigned, thrown>>
    /\ UNCHANGED timedVars

\* ---------------------------------------------------------------- steps

\* std::lock_guard<std::mutex> lock(mutex_): blocks while the mutex is held
Acquire(t) ==
    /\ Busy(t)
    /\ Top(t).pc = "lock"
    /\ mutex = NoThread
    /\ mutex' = t
    /\ stack' = SetTop(t, [Top(t) EXCEPT !.pc = "crit"])
    /\ UNCHANGED <<callbacks, needsCleanup, nextId, owner, hubAlive, handles,
                   calls, unsubCalls, dropped>>
    /\ UNCHANGED <<entryCallback, assigned, thrown>>
    /\ UNCHANGED timedVars

\* a mutant of NewId: the id is the entry's position in the list
NewIdFromSize(cbs, n) == Len(cbs)

\* int id = nextId_++: the id the new entry gets
NewId(cbs, n) == n

\* subscribe under the lock: id = nextId_++, push_back, return the handle
SubscribeCrit(t) ==
    /\ Busy(t)
    /\ Top(t).op = "subscribe"
    /\ Top(t).pc = "crit"
    /\ LET id == NewId(callbacks, nextId)
       IN /\ callbacks' = PushBack(callbacks, CallbackEntry(id))
          /\ handles' = Append(handles, NewSubscription(id))
          /\ entryCallback' = [entryCallback EXCEPT ![id] = Top(t).cb]
          /\ assigned' = Append(assigned, id)
    /\ nextId' = nextId + 1
    /\ mutex' = NoThread
    /\ stack' = Pop(t)
    /\ UNCHANGED <<needsCleanup, owner, hubAlive, calls, unsubCalls, dropped,
                   thrown>>
    /\ UNCHANGED timedVars

\* ~Subscription: if (auto event = event_.lock())
DtorWeakLock(t) ==
    /\ Busy(t)
    /\ Top(t).op = "dtor"
    /\ Top(t).pc = "wlock"
    /\ IF WeakLock(handles[Top(t).h])
       THEN /\ stack' = SetTop(t, [Top(t) EXCEPT !.pc = "lock"])
            /\ UNCHANGED handles
       ELSE /\ stack' = Pop(t)
            /\ handles' = [handles EXCEPT ![Top(t).h].st = "dead"]
    /\ UNCHANGED <<hubVars, owner, hubAlive, calls, unsubCalls, dropped>>
    /\ UNCHANGED <<entryCallback, assigned, thrown>>
    /\ UNCHANGED timedVars

\* event->unsubscribe(id_) under the lock, then the destructor returns and
\* gives up its temporary reference to the hub
UnsubscribeCrit(t) ==
    /\ Busy(t)
    /\ Top(t).op = "dtor"
    /\ Top(t).pc = "crit"
    /\ LET id == handles[Top(t).h].id
           r == UnsubscribeOp(callbacks, needsCleanup, id)
       IN /\ callbacks' = r.callbacks
          /\ needsCleanup' = r.needsCleanup
          /\ unsubCalls' = [unsubCalls EXCEPT ![id] = Min(@ + 1, 2)]
          /\ dropped' = dropped \cup {id}
    /\ mutex' = NoThread
    /\ handles' = [handles EXCEPT ![Top(t).h].st = "dead"]
    /\ stack' = Pop(t)
    /\ hubAlive' = (owner \/ (TempHolders \ {t}) # {})
    /\ UNCHANGED <<nextId, owner, calls>>
    /\ UNCHANGED <<entryCallback, assigned, thrown>>
    /\ UNCHANGED timedVars

\* a mutant of SnapshotRelease: the lock_guard lives to the end of trigger
SnapshotKeepLock(t) == t

\* the holder of mutex_ once the block of lines 213-230 is left
SnapshotRelease(t) == NoThread

\* trigger under the lock: lazy cleanup, then the snapshot of active entries
TriggerCrit(t) ==
    /\ Busy(t)
    /\ Top(t).op = "trigger"
    /\ Top(t).pc = "crit"
    /\ LET r == CleanupOp(callbacks, needsCleanup)
       IN /\ callbacks' = r.callbacks
          /\ needsCleanup' = r.needsCleanup
          /\ stack' = SetTop(t, [Top(t) EXCEPT !.pc = "loop",
                                               !.snap = ActiveEntries(r.callbacks),
                                               !.idx = 1,
                                               !.snapNext = nextId])
    /\ mutex' = SnapshotRelease(t)
    /\ UNCHANGED <<nextId, owner, hubAlive, handles, calls, unsubCalls, dropped>>
    /\ UNCHANGED <<entryCallback, assigned, thrown>>
    /\ UNCHANGED timedVars

\* a mutant of IterationList: trigger walks the live list, as CEvent does
IterationListLive(f, cbs) == ActiveEntries(cbs)

\* the vector the loop of line 232 ranges over
IterationList(f, cbs) == f.snap

\* std::function::operator(): runs the target; an empty std::function
\* throws std::bad_function_call instead
Callable(cb) == cb # "null"

\* entry->callback(args...): the next entry's callback is entered; when the
\* std::function is empty the call throws and trigger is left by the exception
TriggerInvoke(t) ==
    /\ Busy(t)
    /\ Top(t).op = "trigger"
    /\ Top(t).pc = "loop"
    /\ LET list == IterationList(Top(t), callbacks)
       IN /\ Top(t).idx <= Len(list)
          /\ IF Callable(entryCallback[list[Top(t).idx]])
             THEN stack' = SetTop(t, [Top(t) EXCEPT !.pc = "incb",
                                                    !.cur = list[Top(t).idx]])
             ELSE stack' = Pop(t)
    /\ UNCHANGED <<hubVars, owner, hubAlive, handles, calls, unsubCalls, dropped>>
    /\ UNCHANGED <<entryCallback, assigned, thrown>>
    /\ UNCHANGED timedVars

\* the callback returns to the loop of trigger
CallbackReturn(t) ==
    /\ Busy(t)
    /\ Top(t).op = "trigger"
    /\ Top(t).pc = "incb"
    /\ stack' = SetTop(t, [Top(t) EXCEPT !.pc = "loop", !.idx = @ + 1])
    /\ UNCHANGED <<hubVars, owner, hubAlive, handles, calls, unsubCalls, dropped>>
    /\ UNCHANGED <<entryCallback, assigned, thrown>>
    /\ UNCHANGED timedVars

\* the callback throws: trigger has no handler, so the exception leaves it
\* (activeEntries is destroyed) and reaches the caller of trigger
CallbackThrow(t) ==
    /\ Busy(t)
    /\ Top(t).op = "trigger"
    /\ Top(t).pc = "incb"
    /\ stack' = Pop(t)
    /\ thrown' = TRUE
    /\ UNCHANGED <<hubVars, owner, hubAlive, handles, calls, unsubCalls, dropped>>
    /\ UNCHANGED <<entryCallback, assigned>>
    /\ UNCHANGED timedVars

\* the loop is over: trigger returns
TriggerReturn(t) ==
    /\ Busy(t)
    /\ Top(t).op = "trigger"
    /\ Top(t).pc = "loop"
    /\ Top(t).idx > Len(IterationList(Top(t), callbacks))
    /\ stack' = Pop(t)
    /\ UNCHANGED <<hubVars, owner, hubAlive, handles, calls, unsubCalls, dropped>>
    /\ UNCHANGED <<entryCallback, assigned, thrown>>
    /\ UNCHANGED timedVars

\* the steps that continue a call already made
Step(t) ==
    \/ Acquire(t)
    \/ SubscribeCrit(t)
    \/ DtorWeakLock(t)
    \/ UnsubscribeCrit(t)
    \/ TriggerCrit(t)
    \/ TriggerInvoke(t)
    \/ CallbackReturn(t)
    \/ CallbackThrow(t)
    \/ TriggerReturn(t)

Next ==
    \/ \E t \in Threads : \E cb \in Callbacks : CallSubscribe(t, cb)
    \/ \E t \in Threads : CallTrigger(t)
    \/ \E t \in Threads : \E h \in 1 .. Len(handles) : CallDestroy(t, h)
    \/ \E t \in Threads : \E h \in 1 .. Len(handles) : MoveConstruct(t, h)
    \/ \E t \in Threads : \E d, s \in 1 .. Len(handles) : MoveAssign(t, d, s)
    \/ ReleaseOwner
    \/ \E t \in Threads : Acquire(t)
    \/ \E t \in Threads : SubscribeCrit(t)
    \/ \E t \in Threads : DtorWeakLock(t)
    \/ \E t \in Threads : UnsubscribeCrit(t)
    \/ \E t \in Threads : TriggerCrit(t)
    \/ \E t \in Threads : TriggerInvoke(t)
    \/ \E t \in Threads : CallbackReturn(t)
    \/ \E t \in Threads : CallbackThrow(t)
    \/ \E t \in Threads : TriggerReturn(t)

Spec == Init /\ [][Next]_vars

\* every thread that can take a step of its call eventually takes one
FairSpec == Spec /\ \A t \in Threads : WF_vars(Step(t))

\* ============================================================ CTimedEvent

\* number of CTimedEvent calls (subscribe, subscribe_with_delay, trigger)
MaxTimedCalls == 3

\* the largest int; an unsigned int is written as its top bit and the
\* 31 bits below it, value = top * 2^31 + low
IntMax == 2147483647
UInt(top, low) == [top |-> top, low |-> low]
\* the unsigned int with the value of a non-negative int
AsUnsigned(n) == UInt(0, n)
UIntMax == UInt(1, IntMax)

\* delay_ms values the callers pass: none, short, and (unsigned)-1
DelayValues == {AsUnsigned(0), AsUnsigned(100), UIntMax}
\* the argument tuples the callers pass to trigger
TimedArgs == {"a", "b"}

\* unsigned int -> int at the call delay(delay_ms): modulo 2^32
ToInt(u) == IF u.top = 0 THEN u.low ELSE (u.low - IntMax) - 1

\* int delay(int nMs): -1 at once for a negative value, else sleeps nMs
\* (nanosleep retried with the remaining time on EINTR) and returns 0
Delay(nMs) ==
    IF nMs < 0 THEN [ret |-> -1, slept |-> 0]
    ELSE [ret |-> 0, slept |-> nMs]

TFrame(op, cb, d, arg, trig) ==
    [op |-> op, pc |-> "lock", phase |-> "start", cb |-> cb, delay |-> d,
     arg |-> arg, trig |-> trig, idx |-> 0, ran |-> <<>>, immLen |-> 0]

TTop(t) == tstack[t][Len(tstack[t])]
TBusy(t) == tstack[t] # <<>>
TSetTop(t, f) == [tstack EXCEPT ![t] = [tstack[t] EXCEPT ![Len(tstack[t])] = f]]
TPush(t, f) == [tstack EXCEPT ![t] = Append(tstack[t], f)]
TPop(t) == [tstack EXCEPT ![t] = SubSeq(tstack[t], 1, Len(tstack[t]) - 1)]
TFramesOf(t) == {tstack[t][i] : i \in 1 .. Len(tstack[t])}

\* a thread can call from application code or from an immediate callback
TCanCall(t) ==
    /\ tcalls < MaxTimedCalls
    /\ IF TBusy(t)
       THEN /\ Len(tstack[t]) < MaxDepth
            /\ TTop(t).op = "trigger"
            /\ TTop(t).pc = "incb"
       ELSE TRUE

\* a thread calls subscribe(callback)
TCallSubscribe(t, cb) ==
    /\ TCanCall(t)
    /\ tstack' = TPush(t, TFrame("subscribe", cb, AsUnsigned(0), "a", 0))
    /\ tcalls' = tcalls + 1
    /\ UNCHANGED <<immCallbacks, delCallbacks, tmutex, units, trigArgs, relock>>
    /\ UNCHANGED safeVars

\* a thread calls subscribe_with_delay(callback, delay_ms)
TCallSubscribeDelay(t, cb, d) ==
    /\ TCanCall(t)
    /\ tstack' = TPush(t, TFrame("subscribe_with_delay", cb, d, "a", 0))
    /\ tcalls' = tcalls + 1
    /\ UNCHANGED <<immCallbacks, delCallbacks, tmutex, units, trigArgs, relock>>
    /\ UNCHANGED safeVars

\* a thread calls trigger(args...)
TCallTrigger(t, arg) ==
    /\ TCanCall(t)
    /\ tstack' = TPush(t, TFrame("trigger", "fn", AsUnsigned(0), arg, Len(trigArgs) + 1))
    /\ trigArgs' = Append(trigArgs, arg)
    /\ tcalls' = tcalls + 1
    /\ UNCHANGED <<immCallbacks, delCallbacks, tmutex, units, relock>>
    /\ UNCHANGED safeVars

\* a mutant of PhaseAfter: the two blocks of trigger in the other order
PhaseAfterSwapped(p) ==
    IF p = "start" THEN "del" ELSE IF p = "del" THEN "imm" ELSE "end"

\* the blocks of trigger: immediate callbacks, then delayed callbacks
PhaseAfter(p) ==
    IF p = "start" THEN "imm" ELSE IF p = "imm" THEN "del" ELSE "end"

\* a mutant of MutexFreeFor: the lock_guard is missing
MutexIgnored(t) == TRUE

\* std::lock_guard<std::mutex> lock(mutex_) can take the mutex
MutexFreeFor(t) == tmutex = NoThread

\* std::lock_guard<std::mutex> lock(mutex_) in subscribe, in
\* subscribe_with_delay and at the head of each block of trigger
TAcquire(t) ==
    /\ TBusy(t)
    /\ TTop(t).pc = "lock"
    /\ MutexFreeFor(t)
    /\ tmutex' = t
    /\ tstack' = TSetTop(t, [TTop(t) EXCEPT
                               !.pc = "run",
                               !.phase = IF TTop(t).op = "trigger"
                                         THEN PhaseAfter(TTop(t).phase)
                                         ELSE "crit",
                               !.idx = 1])
    /\ UNCHANGED <<immCallbacks, delCallbacks, units, trigArgs, tcalls, relock>>
    /\ UNCHANGED safeVars

\* lock() by the thread that owns mutex_, in a build where it throws
TRelockThrow(t) ==
    /\ TBusy(t)
    /\ TTop(t).pc = "lock"
    /\ tmutex = t
    /\ relock = "throw"
    /\ tstack' = TPop(t)
    /\ UNCHANGED <<immCallbacks, delCallbacks, tmutex, units, trigArgs, tcalls,
                   relock>>
    /\ UNCHANGED safeVars

\* subscribe under the lock
TSubscribeCrit(t) ==
    /\ TBusy(t)
    /\ TTop(t).op = "subscribe"
    /\ TTop(t).pc = "run"
    /\ immCallbacks' = Append(immCallbacks, TTop(t).cb)
    /\ tmutex' = NoThread
    /\ tstack' = TPop(t)
    /\ UNCHANGED <<delCallbacks, units, trigArgs, tcalls, relock>>
    /\ UNCHANGED safeVars

\* subscribe_with_delay under the lock
TSubscribeDelayCrit(t) ==
    /\ TBusy(t)
    /\ TTop(t).op = "subscribe_with_delay"
    /\ TTop(t).pc = "run"
    /\ delCallbacks' = Append(delCallbacks,
                              [func |-> TTop(t).cb, delay_ms |-> TTop(t).delay])
    /\ tmutex' = NoThread
    /\ tstack' = TPop(t)
    /\ UNCHANGED <<immCallbacks, units, trigArgs, tcalls, relock>>
    /\ UNCHANGED safeVars

\* a block of trigger is left: lock released, then the next block or return
LeaveBlock(t, f) ==
    IF PhaseAfter(f.phase) = "end"
    THEN TPop(t)
    ELSE TSetTop(t, [f EXCEPT !.pc = "lock"])

\* the loop over immediate_callbacks_: if (cb) cb(args...)
TImmInvoke(t) ==
    /\ TBusy(t)
    /\ TTop(t).op = "trigger"
    /\ TTop(t).phase = "imm"
    /\ TTop(t).pc = "run"
    /\ TTop(t).idx <= Len(immCallbacks)
    /\ tstack' = IF immCallbacks[TTop(t).idx] # "null"
                 THEN TSetTop(t, [TTop(t) EXCEPT !.pc = "incb"])
                 ELSE TSetTop(t, [TTop(t) EXCEPT !.idx = @ + 1])
    /\ UNCHANGED <<immCallbacks, delCallbacks, tmutex, units, trigArgs, tcalls,
                   relock>>
    /\ UNCHANGED safeVars

\* the immediate callback returns to the loop
TImmReturn(t) ==
    /\ TBusy(t)
    /\ TTop(t).op = "trigger"
    /\ TTop(t).pc = "incb"
    /\ tstack' = TSetTop(t, [TTop(t) EXCEPT !.pc = "run",
                                             !.idx = @ + 1,
                                             !.ran = Append(@, TTop(t).idx)])
    /\ UNCHANGED <<immCallbacks, delCallbacks, tmutex, units, trigArgs, tcalls,
                   relock>>
    /\ UNCHANGED safeVars

\* the immediate callback throws: the lock_guard unlocks, trigger is left
TImmThrow(t) ==
    /\ TBusy(t)
    /\ TTop(t).op = "trigger"
    /\ TTop(t).pc = "incb"
    /\ tmutex' = IF tmutex = t THEN NoThread ELSE tmutex
    /\ tstack' = TPop(t)
    /\ UNCHANGED <<immCallbacks, delCallbacks, units, trigArgs, tcalls, relock>>
    /\ UNCHANGED safeVars

\* the loop over immediate_callbacks_ is over: the first block is left
TImmEnd(t) ==
    /\ TBusy(t)
    /\ TTop(t).op = "trigger"
    /\ TTop(t).phase = "imm"
    /\ TTop(t).pc = "run"
    /\ TTop(t).idx > Len(immCallbacks)
    /\ tmutex' = IF tmutex = t THEN NoThread ELSE tmutex
    /\ tstack' = LeaveBlock(t, [TTop(t) EXCEPT !.immLen = Len(immCallbacks)])
    /\ UNCHANGED <<immCallbacks, delCallbacks, units, trigArgs, tcalls, relock>>
    /\ UNCHANGED safeVars

\* std::thread([bound_func, delay_ms]{...}).detach(): a new unit
Unit(f, k, tcb) ==
    [trig |-> f.trig, sub |-> k, arg |-> f.arg, ran |-> f.ran,
     immLen |-> f.immLen,
     delay_ms |-> tcb.delay_ms, pc |-> "start", ret |-> 0, slept |-> 0]

\* the loop over delayed_callbacks_: if (tcb.func) launch_delayed(...)
RECURSIVE SpawnFrom(_, _, _)
SpawnFrom(list, f, k) ==
    IF k > Len(list) THEN <<>>
    ELSE (IF list[k].func # "null" THEN <<Unit(f, k, list[k])>> ELSE <<>>)
         \o SpawnFrom(list, f, k + 1)

\* a mutant of SpawnUnits: the loop over delayed_callbacks_ runs twice
SpawnUnitsTwice(list, f) == SpawnFrom(list, f, 1) \o SpawnFrom(list, f, 1)

\* the units one trigger call launches
SpawnUnits(list, f) == SpawnFrom(list, f, 1)

\* the second block of trigger: one detached thread per delayed callback
TDelayedBlock(t) ==
    /\ TBusy(t)
    /\ TTop(t).op = "trigger"
    /\ TTop(t).phase = "del"
    /\ TTop(t).pc = "run"
    /\ units' = units \o SpawnUnits(delCallbacks, TTop(t))
    /\ tmutex' = IF tmutex = t THEN NoThread ELSE tmutex
    /\ tstack' = LeaveBlock(t, TTop(t))
    /\ UNCHANGED <<immCallbacks, delCallbacks, trigArgs, tcalls, relock>>
    /\ UNCHANGED safeVars

\* the unit runs delay(delay_ms) and drops what it returns
UnitDelay(i) ==
    /\ units[i].pc = "start"
    /\ LET r == Delay(ToInt(units[i].delay_ms))
       IN units' = [units EXCEPT ![i].pc = "waited",
                                 ![i].ret = r.ret,
                                 ![i].slept = r.slept]
    /\ UNCHANGED <<immCallbacks, delCallbacks, tmutex, tstack, trigArgs, tcalls,
                   relock>>
    /\ UNCHANGED safeVars

\* the unit runs bound_func(): the callback is entered
UnitInvoke(i) ==
    /\ units[i].pc = "waited"
    /\ units' = [units EXCEPT ![i].pc = "running"]
    /\ UNCHANGED <<immCallbacks, delCallbacks, tmutex, tstack, trigArgs, tcalls,
                   relock>>
    /\ UNCHANGED safeVars

\* the callback returns and the detached thread ends
UnitDone(i) ==
    /\ units[i].pc = "running"
    /\ units' = [units EXCEPT ![i].pc = "done"]
    /\ UNCHANGED <<immCallbacks, delCallbacks, tmutex, tstack, trigArgs, tcalls,
                   relock>>
    /\ UNCHANGED safeVars

\* the steps that continue a CTimedEvent call already made
TimedStep(t) ==
    \/ TAcquire(t)
    \/ TRelockThrow(t)
    \/ TSubscribeCrit(t)
    \/ TSubscribeDelayCrit(t)
    \/ TImmInvoke(t)
    \/ TImmReturn(t)
    \/ TImmThrow(t)
    \/ TImmEnd(t)
    \/ TDelayedBlock(t)

\* the steps of a detached thread
UnitStep(i) ==
    /\ i \in 1 .. Len(units)
    /\ (UnitDelay(i) \/ UnitInvoke(i) \/ UnitDone(i))

\* no more detached threads than this are ever launched
MaxUnits == MaxTimedCalls * MaxTimedCalls

TimedNext ==
    \/ \E t \in Threads : \E cb \in Callbacks : TCallSubscribe(t, cb)
    \/ \E t \in Threads : \E cb \in Callbacks : \E d \in DelayValues :
          TCallSubscribeDelay(t, cb, d)
    \/ \E t \in Threads : \E a \in TimedArgs : TCallTrigger(t, a)
    \/ \E t \in Threads : TAcquire(t)
    \/ \E t \in Threads : TRelockThrow(t)
    \/ \E t \in Threads : TSubscribeCrit(t)
    \/ \E t \in Threads : TSubscribeDelayCrit(t)
    \/ \E t \in Threads : TImmInvoke(t)
    \/ \E t \in Threads : TImmReturn(t)
    \/ \E t \in Threads : TImmThrow(t)
    \/ \E t \in Threads : TImmEnd(t)
    \/ \E t \in Threads : TDelayedBlock(t)
    \/ \E i \in 1 .. Len(units) : UnitDelay(i)
    \/ \E i \in 1 .. Len(units) : UnitInvoke(i)
    \/ \E i \in 1 .. Len(units) : UnitDone(i)

TimedSpec == TimedInit /\ [][TimedNext]_vars

\* every thread and every detached thread that can take a step takes one
FairTimedSpec ==
    /\ TimedSpec
    /\ \A t \in Threads : WF_vars(TimedStep(t))
    /\ \A i \in 1 .. MaxUnits : WF_vars(UnitStep(i))

\* ------------------------------------------------- vocabulary of claims

TriggerFrames == {f \in AllFrames : f.op = "trigger"}
\* trigger frames whose snapshot has been taken
SnapshotFrames == {f \in TriggerFrames : f.pc \in {"loop", "incb"}}
\* trigger frames whose current callback is running
InvokingFrames == {f \in TriggerFrames : f.pc = "incb"}
\* trigger frames whose loop is over
FinishedFrames == {f \in SnapshotFrames : f.pc = "loop" /\ f.idx > Len(f.snap)}

Range(q) == {q[i] : i \in 1 .. Len(q)}
StrictlyAscending(q) == \A i, j \in 1 .. Len(q) : i < j => q[i] < q[j]
ActiveIdSet(cbs) == {cbs[k].id : k \in {n \in 1 .. Len(cbs) : cbs[n].active}}
Tombstones(cbs) == {cbs[k].id : k \in {n \in 1 .. Len(cbs) : ~cbs[n].active}}

\* this step is thread t leaving the locked block of trigger
TookSnapshot(t) ==
    /\ Busy(t)
    /\ Top(t).op = "trigger"
    /\ Top(t).pc = "crit"
    /\ stack'[t] # stack[t]

\* this step is thread t leaving the locked block of subscribe
Subscribed(t) ==
    /\ Busy(t)
    /\ Top(t).op = "subscribe"
    /\ Top(t).pc = "crit"
    /\ stack'[t] # stack[t]

\* this step is thread t entering a callback from the loop of trigger
Entered(t) ==
    /\ Busy(t)
    /\ Top(t).op = "trigger"
    /\ Top(t).pc = "loop"
    /\ Len(stack'[t]) = Len(stack[t])
    /\ stack'[t][Len(stack[t])].pc = "incb"

\* this step is thread t acting inside the destructor of a handle with id i
DtorStep(t, i) ==
    /\ Busy(t)
    /\ Top(t).op = "dtor"
    /\ handles[Top(t).h].id = i
    /\ stack'[t] # stack[t]

\* ----------------------------------------------------------------- C1
\* C1: a trigger call that starts after the destructor of the handle owning
\* a subscription has completed (hub alive) never invokes that
\* subscription's callback.
C1_DroppedNotInvoked ==
    \A f \in InvokingFrames : f.cur \notin f.startDropped

\* a trigger that started after a drop has run its callbacks and is over
C1_Witness ==
    \E f \in FinishedFrames : f.startDropped # {} /\ Len(f.snap) >= 1

\* ----------------------------------------------------------------- C2
\* C2: a move never unsubscribes: while the handle that owns a subscription
\* is alive its entry stays registered and active (so every snapshot holds
\* it), unsubscribe is only ever called for the id of a destroyed handle,
\* and the destructor of a moved-from handle calls no unsubscribe and
\* changes no hub state.
C2_OwnedStaysActive ==
    /\ hubAlive =>
         \A h \in HandleSet :
            (handles[h].st = "live" /\ handles[h].ref) =>
                handles[h].id \in ActiveIdSet(callbacks)
    /\ \A i \in Ids : unsubCalls[i] > 0 =>
         \E h \in HandleSet : handles[h].st = "dead" /\ handles[h].id = i
    /\ unsubCalls[Sentinel] = 0

C2_MoveNeverUnsubscribes ==
    /\ []C2_OwnedStaysActive
    /\ [][\A t \in Threads : DtorStep(t, Sentinel) =>
            UNCHANGED <<hubVars, hubAlive, unsubCalls, dropped>>]_vars

\* the only subscription was moved, the moved-from handle is destroyed, and
\* a trigger is invoking the callback of the handle that now owns it
C2_Witness ==
    /\ nextId = 1
    /\ \E a, b \in HandleSet :
          /\ handles[a].st = "dead" /\ handles[a].id = Sentinel
          /\ handles[b].st = "live" /\ handles[b].ref
          /\ \E f \in InvokingFrames : f.cur = handles[b].id

\* ----------------------------------------------------------------- C3
\* C3: once every handle object has been destroyed (hub alive throughout),
\* unsubscribe has been called exactly once for the id of every
\* subscription.
C3_ExactlyOnceUnsubscribe ==
    (owner /\ AllHandlesDead) =>
        \A i \in 0 .. (nextId - 1) : unsubCalls[i] = 1

\* ----------------------------------------------------------------- C4
\* C4: the snapshot of trigger holds exactly the listeners active when it is
\* taken, in ascending id (subscription) order, and the loop invokes them
\* in the order of the snapshot.
C4_SnapshotOrdered ==
    \A f \in SnapshotFrames :
        /\ StrictlyAscending(f.snap)
        /\ f.pc = "incb" => (f.idx \in 1 .. Len(f.snap) /\ f.cur = f.snap[f.idx])

C4_SubscriptionOrder ==
    /\ []C4_SnapshotOrdered
    /\ [][\A t \in Threads : TookSnapshot(t) =>
            Range(stack'[t][Len(stack[t])].snap) = ActiveIdSet(callbacks')]_vars

\* a cleanup removed the tombstone of B between A and C, and the trigger
\* has reached C after A
C4_Witness ==
    \E f \in InvokingFrames :
        /\ Len(f.snap) >= 2
        /\ f.idx = Len(f.snap)
        /\ \E i \in Ids : f.snap[1] < i /\ i < f.snap[2] /\ i \in f.startDropped

\* ----------------------------------------------------------------- C5
\* C5: a thread whose trigger call is in its loop or in the body of a
\* callback (not inside a reentrant call that callback made) does not hold
\* mutex_, and every call a thread has made eventually returns, with
\* reentrant calls from callbacks and with two threads calling concurrently.
C5_NoLockInCallback ==
    \A t \in Threads :
        (Busy(t) /\ Top(t).op = "trigger" /\ Top(t).pc \in {"loop", "incb"})
            => mutex # t

C5_DeadlockFree ==
    /\ []C5_NoLockInCallback
    /\ \A t \in Threads : Busy(t) ~> ~Busy(t)

\* a reentrant call from a callback is in its locked block while the other
\* thread waits for the mutex
C5_Witness ==
    \E t, u \in Threads :
        /\ t # u
        /\ Len(stack[t]) = 2
        /\ Top(t).pc = "crit"
        /\ Busy(u)
        /\ Top(u).pc = "lock"

\* ----------------------------------------------------------------- C6
\* C6: an in-flight trigger only invokes listeners whose subscribe took the
\* lock before its snapshot: the id it invokes is below nextId_ as it was
\* when the snapshot was taken, and is an element of the snapshot.
C6_LateSubscriberSkipped ==
    \A f \in InvokingFrames : f.cur < f.snapNext /\ f.cur \in Range(f.snap)

\* a trigger has finished its loop although a listener subscribed after its
\* snapshot is active in the list
C6_Witness ==
    \E f \in FinishedFrames :
        /\ Len(f.snap) >= 1
        /\ \E i \in ActiveIdSet(callbacks) : i >= f.snapNext

\* ----------------------------------------------------------------- C7
\* C7 as stated: the callback of an entry that unsubscribe has marked
\* inactive is never entered again.
C7_NeverInvokedOnceInactive ==
    [][\A t \in Threads : Entered(t) =>
          unsubCalls[stack'[t][Len(stack[t])].cur] = 0]_vars

\* C7 as amended: no snapshot taken after unsubscribe marked an entry holds
\* that entry, and trigger invokes entries of its snapshot only.
C7_NotInLaterSnapshot ==
    /\ [][\A t \in Threads : TookSnapshot(t) =>
            \A i \in Range(stack'[t][Len(stack[t])].snap) : unsubCalls[i] = 0]_vars
    /\ [](\A f \in InvokingFrames : f.cur \in Range(f.snap))

\* a trigger that started after an unsubscribe is running a callback
C7_Witness ==
    \E f \in InvokingFrames : f.startDropped # {} /\ unsubCalls[f.cur] = 0

\* ----------------------------------------------------------------- C8
\* C8 as stated: a subscribe or trigger call made once all handles are
\* dropped (and with no unsubscribe since it was made) leaves no tombstone
\* and needsCleanup_ false when it leaves its locked block.
C8_OneSubscribeOrTrigger ==
    [][\A t \in Threads :
          /\ Subscribed(t) \/ TookSnapshot(t)
          /\ Top(t).afterDrop
          /\ Top(t).startDropped = dropped
          => (Tombstones(callbacks') = {} /\ ~needsCleanup')]_vars

\* C8 as amended: the locked block of a trigger leaves no tombstone and
\* needsCleanup_ false; subscribe performs no cleanup.
C8_OneTrigger ==
    [][\A t \in Threads : TookSnapshot(t) =>
          (Tombstones(callbacks') = {} /\ ~needsCleanup')]_vars

\* a trigger called after all handles were dropped has taken its snapshot
C8_Witness ==
    /\ AllHandlesDead
    /\ owner
    /\ Tombstones(callbacks) = {}
    /\ \E f \in SnapshotFrames :
          f.afterDrop /\ f.startDropped = dropped /\ dropped # {}

\* ----------------------------------------------------------------- C9
\* C9: in every hub state, unsubscribe(id) of an id that is not an active
\* entry (the sentinel, unknown, tombstoned, reclaimed) leaves callbacks_
\* and needsCleanup_ as they are, and a second unsubscribe(id) of any id
\* leaves the state the first one produced.
C9_UnsubscribeIdempotent ==
    \A i \in Ids \cup {Sentinel} :
        LET once == UnsubscribeOp(callbacks, needsCleanup, i)
            twice == UnsubscribeOp(once.callbacks, once.needsCleanup, i)
        IN /\ twice = once
           /\ i \notin ActiveIdSet(callbacks) =>
                 /\ ActiveEntries(once.callbacks) = ActiveEntries(callbacks)
                 /\ once.callbacks = callbacks
                 /\ once.needsCleanup = needsCleanup

\* the list holds a tombstone, and the entry of another id was reclaimed
C9_Witness ==
    /\ Tombstones(callbacks) # {}
    /\ \E i \in 0 .. (nextId - 1) :
          i \notin Range(IdsOf(callbacks)) /\ unsubCalls[i] = 1

\* ---------------------------------------------------------------- C10
\* C10: handles never keep the hub alive (it is destroyed as soon as the
\* application's reference is gone and no destructor is inside its
\* temporary lock), and once the hub is destroyed no destructor or move of a
\* handle calls unsubscribe, takes the mutex or changes hub state.
C10_HandlesDoNotOwn ==
    (~owner /\ TempHolders = {}) => ~hubAlive

C10_HubMayDieFirst ==
    /\ []C10_HandlesDoNotOwn
    /\ [][~hubAlive => UNCHANGED <<hubVars, hubAlive, unsubCalls, dropped>>]_vars

\* the hub is destroyed; a handle that referred to it was destroyed after
\* it without an unsubscribe, and another such handle still exists
C10_Witness ==
    /\ ~hubAlive
    /\ \E a, b \in HandleSet :
          /\ handles[a].st = "dead" /\ handles[a].ref
          /\ unsubCalls[handles[a].id] = 0
          /\ handles[b].st = "live" /\ handles[b].ref

\* ---------------------------------------------------------------- C13
\* this state has thread t in the loop of trigger at an entry whose
\* callback is an empty std::function
AtNull(t) ==
    /\ Busy(t)
    /\ Top(t).op = "trigger"
    /\ Top(t).pc = "loop"
    /\ Top(t).idx <= Len(Top(t).snap)
    /\ entryCallback[Top(t).snap[Top(t).idx]] = "null"

\* C13: a listener with an empty callback is accepted by subscribe, and
\* the loop of trigger skips it: the trigger call stays in its loop and
\* goes on to the next entry of the snapshot.
C13_NullSkipped ==
    [][\A t \in Threads :
         (AtNull(t) /\ stack'[t] # stack[t]) =>
             /\ Len(stack'[t]) = Len(stack[t])
             /\ stack'[t][Len(stack[t])].pc = "loop"
             /\ stack'[t][Len(stack[t])].idx = Top(t).idx + 1]_vars

\* ---------------------------------------------------------------- C14
\* this step is the callback invoked by thread t throwing out of trigger
Threw(t) ==
    /\ Busy(t)
    /\ Top(t).op = "trigger"
    /\ Top(t).pc = "incb"
    /\ Len(stack'[t]) < Len(stack[t])

\* C14: a listener that throws out of trigger changes neither the entries
\* and their active flags, nor needs_cleanup, nor next_id, the throwing
\* thread does not hold the mutex, and the snapshot of a trigger that
\* starts after the throw holds every active listener.
C14_ThrowLeavesHubIntact ==
    /\ [][\A t \in Threads : Threw(t) =>
             /\ callbacks' = callbacks
             /\ needsCleanup' = needsCleanup
             /\ nextId' = nextId
             /\ mutex' = mutex
             /\ mutex # t]_vars
    /\ [][\A t \in Threads : (TookSnapshot(t) /\ Top(t).afterThrow) =>
             Range(stack'[t][Len(stack[t])].snap) = ActiveIdSet(callbacks')]_vars

\* a trigger that started after a listener threw has reached the last of
\* two listeners
C14_Witness ==
    \E f \in InvokingFrames :
        f.afterThrow /\ Len(f.snap) >= 2 /\ f.idx = Len(f.snap)

\* ---------------------------------------------------------------- C15
\* C15: the ids handed out by subscribe, in the order they were assigned
\* (by any thread, from callbacks too), are strictly increasing, all below
\* next_id, and an id whose entry was reclaimed is not assigned again.
C15_IdsIncrease ==
    /\ StrictlyAscending(assigned)
    /\ \A i \in 1 .. Len(assigned) : assigned[i] < nextId
    /\ \A k \in 1 .. Len(callbacks) : callbacks[k].id \in Range(assigned)

\* an entry was reclaimed and a later subscribe, made while a trigger was
\* in a callback, got a new id
C15_Witness ==
    /\ Len(assigned) >= 3
    /\ assigned[1] \notin Range(IdsOf(callbacks))
    /\ assigned[Len(assigned)] \in Range(IdsOf(callbacks))
    /\ \E f \in InvokingFrames : assigned[Len(assigned)] \notin Range(f.snap)

\* ---------------------------------------------------------------- C18
\* C18: whenever the mutex is free, needs_cleanup is true exactly when the
\* list holds an inactive entry, and no id occurs twice in the list.
C18_FlagMatchesTombstones ==
    mutex = NoThread =>
        /\ needsCleanup <=> (Tombstones(callbacks) # {})
        /\ \A i, j \in 1 .. Len(callbacks) :
              i # j => callbacks[i].id # callbacks[j].id

\* the flag has been set by an unsubscribe, reset by a cleanup, and set
\* again by an unsubscribe made while a trigger is in its loop
C18_Witness ==
    /\ mutex = NoThread
    /\ needsCleanup
    /\ Tombstones(callbacks) # {}
    /\ \E i \in Range(assigned) : i \notin Range(IdsOf(callbacks))
    /\ \E f \in SnapshotFrames : Tombstones(callbacks) \subseteq Range(f.snap)

\* ------------------------------------------ vocabulary of CTimedEvent claims

UnitSet == 1 .. Len(units)
\* the units whose callback has been entered
Fired == {i \in UnitSet : units[i].pc \in {"running", "done"}}
TAllFrames == UNION {TFramesOf(t) : t \in Threads}
TTriggerFrames == {f \in TAllFrames : f.op = "trigger"}
\* thread t is inside the first block of trigger
ImmPhase(t) ==
    \E f \in TFramesOf(t) :
        f.op = "trigger" /\ f.phase = "imm" /\ f.pc \in {"run", "incb"}
\* the indices below n of the callable entries of a list, ascending
CallableIdx(list, n) ==
    SelectSeq([k \in 1 .. n |-> k], LAMBDA k : list[k] # "null")

\* ---------------------------------------------------------------- C11
\* C11: a delayed callback is entered only by a spawned unit that has
\* waited the delay registered with the subscription, and it gets the
\* arguments of the trigger call that spawned the unit.
C11_WaitsRegisteredDelay ==
    \A i \in Fired :
        /\ AsUnsigned(units[i].slept) = units[i].delay_ms
        /\ units[i].delay_ms = delCallbacks[units[i].sub].delay_ms
        /\ units[i].arg = trigArgs[units[i].trig]

\* ---------------------------------------------------------------- C12
\* C12: a unit whose delay() call reported -1 for a negative value does
\* not go on to invoke the callback.
C12_NegativeNotInvoked ==
    \A i \in UnitSet : units[i].ret = -1 => i \notin Fired

\* ---------------------------------------------------------------- C16
\* C16: the immediate callbacks of a trigger call are invoked in
\* subscription order, and when a unit of the call exists the call has
\* left its first block with every callable immediate callback returned.
C16_ImmediateBeforeDelayed ==
    /\ \A f \in TTriggerFrames :
          (f.phase = "imm" /\ f.pc \in {"run", "incb"}) =>
              f.ran = CallableIdx(immCallbacks, f.idx - 1)
    /\ \A i \in UnitSet :
          /\ units[i].immLen <= Len(immCallbacks)
          /\ units[i].ran = CallableIdx(immCallbacks, units[i].immLen)
          /\ \A f \in TTriggerFrames :
                f.trig = units[i].trig => f.phase \notin {"start", "imm"}

\* a delayed callback runs for a trigger call that ran an immediate
\* callback first
C16_Witness ==
    \E i \in Fired : Len(units[i].ran) >= 1

\* ---------------------------------------------------------------- C17
\* C17: over the lifetime of the dispatcher the callback of a delayed
\* subscription is invoked at most once, however often trigger is called.
C17_OneShot ==
    \A i, j \in Fired : units[i].sub = units[j].sub => i = j

\* C17 as the code has it: the callback of a delayed subscription is
\* invoked at most once for each trigger call, by a unit of a callable
\* registered subscription, and the subscription stays registered.
C17_OncePerTrigger ==
    /\ \A i, j \in UnitSet :
          (units[i].sub = units[j].sub /\ units[i].trig = units[j].trig) => i = j
    /\ \A i \in UnitSet :
          /\ units[i].sub \in 1 .. Len(delCallbacks)
          /\ delCallbacks[units[i].sub].func # "null"
          /\ units[i].trig \in 1 .. Len(trigArgs)

\* two trigger calls have each fired the callback of one subscription
C17_Witness ==
    \E i, j \in UnitSet :
        /\ units[i].sub = units[j].sub
        /\ units[i].trig # units[j].trig
        /\ units[i].pc = "done"
        /\ units[j].pc = "done"

\* ---------------------------------------------------------------- C19
\* C19: every call to trigger, subscribe and subscribe_with_delay
\* returns, calls made from inside an immediate callback included.
C19_CallsReturn ==
    \A t \in Threads : TBusy(t) ~> ~TBusy(t)

\* ---------------------------------------------------------------- C20
\* C20: at most one thread is inside the first block of trigger, it holds
\* the mutex, and while it stays there neither list changes (no subscribe
\* and no subscribe_with_delay completes).
C20_ImmediateExclusive ==
    /\ [](\A t \in Threads : ImmPhase(t) =>
            /\ tmutex = t
            /\ \A o \in Threads \ {t} : ~ImmPhase(o))
    /\ [][\A t \in Threads : (ImmPhase(t) /\ ImmPhase(t)') =>
            /\ immCallbacks' = immCallbacks
            /\ delCallbacks' = delCallbacks]_vars

\* a thread is inside an immediate callback while the other one waits for
\* the mutex in subscribe or subscribe_with_delay
C20_Witness ==
    \E t \in Threads : \E o \in Threads \ {t} :
        /\ ImmPhase(t)
        /\ TTop(t).pc = "incb"
        /\ TBusy(o)
        /\ TTop(o).pc = "lock"
        /\ TTop(o).op \in {"subscribe", "subscribe_with_delay"}

====
